---- MODULE Spec2Model ----
(***************************************************************************)
(* A model of package sanic (worker.go): the Worker id generator, its      *)
(* constructor NewWorker, the locked entry point NextID, the unlocked      *)
(* entry point UnsafeNextID and the spin-wait waitForNextTime.             *)
(*                                                                         *)
(* Every statement of UnsafeNextID and waitForNextTime that reads or       *)
(* writes the Worker, or reads the clock, is one step of the calling       *)
(* goroutine, so that calls of several goroutines interleave as they do    *)
(* in the program.  The wall clock is a variable that the environment      *)
(* moves forward and, sometimes, backward; every Worker is given a         *)
(* Frequency of 1, so that a reading of the clock is a tick.  The IDs of   *)
(* the model stay far below 2^63, where int64 arithmetic is exact.         *)
(***************************************************************************)
EXTENDS Integers, Naturals, Sequences, FiniteSets, TLC

(***************************************************************************)
(* Bounds of the model.                                                    *)
(***************************************************************************)
MaxEpoch == 1       \* NewWorker is given an epoch in 0 .. MaxEpoch
MaxTick == 4        \* the clock reports UnixNano values MaxEpoch .. MaxTick
MaxBack == 1        \* how many times the clock may be set backward
MaxCalls == 3       \* how many calls of NextID / UnsafeNextID are started
MaxCallsTwo == 2    \* the same, in TwoSpec, RaceSpec and LiveSpec
MaxID == 1          \* NewWorker is given an id in 0 .. MaxID
MaxWidth == 1       \* NewWorker is given idBits, sequenceBits in 0 .. MaxWidth
MinTimeStampBits == 3   \* and timestampBits in MinTimeStampBits ..
MaxTimeStampBits == 4   \*                      .. MaxTimeStampBits

Procs == {"g1", "g2"}            \* the goroutines that call a Worker
Workers == {"w1", "w2"}          \* the Worker values of the program
NoProc == "none"
NoWorkerName == "none"
Frequencies == {1}               \* time.Duration values given to NewWorker

VARIABLES
    now,         \* time.Now().UnixNano()
    backs,       \* how many times the clock has been set backward
    fatal,       \* log.Fatal was called: the process has exited
    worker,      \* worker[w]: the fields of Worker w (built = constructed)
    mutex,       \* mutex[w]: the goroutine holding w.mutex, or NoProc
    pc,          \* pc[p]: the statement goroutine p is at
    wk,          \* wk[p]: the Worker p's call is on
    safe,        \* safe[p]: p's call is NextID (TRUE) or UnsafeNextID
    timestamp,   \* timestamp[p]: the local timestamp of UnsafeNextID
    ts,          \* ts[p]: the local ts of waitForNextTime
    site,        \* site[p]: the line waitForNextTime was called from
    lts0,        \* lts0[p]: w.LastTimeStamp when p read the clock (history)
    seq0,        \* seq0[p]: w.Sequence when p read the clock (history)
    read,        \* read[p]: what the clock read of line 74 gave (history)
    took,        \* took[p]: the branches p's call has taken (history)
    left,        \* the number of calls the goroutines have still to start
    raced,       \* raced[w]: two calls ran UnsafeNextID's body on w at once
    args,        \* args[w]: the arguments NewWorker was called with (history)
    issued       \* issued[w]: the IDs w returned, in order (history)

hist == <<lts0, seq0, read, took>>
procvars == <<pc, wk, safe, timestamp, ts, site, hist>>
vars == <<now, backs, fatal, worker, mutex, pc, wk, safe, timestamp, ts, site,
          hist, left, raced, args, issued>>

(***************************************************************************)
(* int64 operations of the ID expression.                                  *)
(***************************************************************************)
Pow2(n) == 2 ^ n

\* x << s on non-negative values that stay below 2^63
Shl(x, s) == x * Pow2(s)

\* a | b on non-negative values
RECURSIVE BitOr(_, _)
BitOr(a, b) ==
    IF a = 0 THEN b
    ELSE IF b = 0 THEN a
    ELSE (IF a % 2 = 1 \/ b % 2 = 1 THEN 1 ELSE 0)
         + 2 * BitOr(a \div 2, b \div 2)

(***************************************************************************)
(* The Worker struct and NewWorker.                                        *)
(***************************************************************************)
NoWorker ==
    [built |-> FALSE, ID |-> 0, IDBits |-> 0, IDShift |-> 0, Sequence |-> 0,
     SequenceBits |-> 0, LastTimeStamp |-> 0, TimeStampBits |-> 0,
     TimeStampShift |-> 0, Frequency |-> 1, TotalBits |-> 0, CustomEpoch |-> 0]

NoArgs == [called |-> FALSE, id |-> 0, epoch |-> 0, idBits |-> 0,
           sequenceBits |-> 0, timestampBits |-> 0, frequency |-> 1, at |-> 0]

\* (a slip: the reserved bit is left out of the sum)
TotalBitsNoReserved(idBits, sequenceBits, timestampBits) ==
    idBits + sequenceBits + timestampBits

\* totalBits := idBits + sequenceBits + timestampBits + 1
TotalBitsOf(idBits, sequenceBits, timestampBits) ==
    idBits + sequenceBits + timestampBits + 1

\* the condition of the log.Fatal of NewWorker
BadTotalBits(totalBits) == totalBits % 6 # 0

\* w.Time() of a Worker with the given Frequency
Time(frequency) == now \div frequency

\* (a slip: the timestamp is shifted one bit too far, into the reserved bit)
WorkerLiteralShiftOff(id, epoch, idBits, sequenceBits, timestampBits, frequency) ==
    [built |-> TRUE,
     ID |-> id,
     IDBits |-> idBits,
     IDShift |-> sequenceBits,
     Sequence |-> 0,
     SequenceBits |-> sequenceBits,
     LastTimeStamp |-> Time(frequency),
     TimeStampBits |-> timestampBits,
     TimeStampShift |-> sequenceBits + idBits + 1,
     Frequency |-> frequency,
     TotalBits |-> TotalBitsOf(idBits, sequenceBits, timestampBits),
     CustomEpoch |-> epoch]

\* (a slip: Sequence starts at 1)
WorkerLiteralSequenceOne(id, epoch, idBits, sequenceBits, timestampBits, frequency) ==
    [built |-> TRUE,
     ID |-> id,
     IDBits |-> idBits,
     IDShift |-> sequenceBits,
     Sequence |-> 1,
     SequenceBits |-> sequenceBits,
     LastTimeStamp |-> Time(frequency),
     TimeStampBits |-> timestampBits,
     TimeStampShift |-> sequenceBits + idBits,
     Frequency |-> frequency,
     TotalBits |-> TotalBitsOf(idBits, sequenceBits, timestampBits),
     CustomEpoch |-> epoch]

\* the composite literal of NewWorker followed by w.LastTimeStamp = w.Time()
WorkerLiteral(id, epoch, idBits, sequenceBits, timestampBits, frequency) ==
    [built |-> TRUE,
     ID |-> id,
     IDBits |-> idBits,
     IDShift |-> sequenceBits,
     Sequence |-> 0,
     SequenceBits |-> sequenceBits,
     LastTimeStamp |-> Time(frequency),
     TimeStampBits |-> timestampBits,
     TimeStampShift |-> sequenceBits + idBits,
     Frequency |-> frequency,
     TotalBits |-> TotalBitsOf(idBits, sequenceBits, timestampBits),
     CustomEpoch |-> epoch]

NewWorker(w, id, epoch, idBits, sequenceBits, timestampBits, frequency) ==
    /\ ~fatal
    /\ ~args[w].called
    /\ args' = [args EXCEPT ![w] =
                  [called |-> TRUE, id |-> id, epoch |-> epoch,
                   idBits |-> idBits, sequenceBits |-> sequenceBits,
                   timestampBits |-> timestampBits, frequency |-> frequency,
                   at |-> now]]
    /\ IF BadTotalBits(TotalBitsOf(idBits, sequenceBits, timestampBits))
       THEN /\ fatal' = TRUE
            /\ UNCHANGED worker
       ELSE /\ worker' = [worker EXCEPT ![w] =
                            WorkerLiteral(id, epoch, idBits, sequenceBits,
                                          timestampBits, frequency)]
            /\ UNCHANGED fatal
    /\ UNCHANGED <<now, backs, mutex, procvars, left, raced, issued>>

(***************************************************************************)
(* The clock.                                                              *)
(***************************************************************************)
Tick ==
    /\ ~fatal
    /\ now < MaxTick
    /\ now' = now + 1
    /\ UNCHANGED <<backs, fatal, worker, mutex, procvars, left, raced, args,
                   issued>>

ClockBack ==
    /\ ~fatal
    /\ backs < MaxBack
    /\ \E t \in MaxEpoch .. (now - 1) : now' = t
    /\ backs' = backs + 1
    /\ UNCHANGED <<fatal, worker, mutex, procvars, left, raced, args, issued>>

(***************************************************************************)
(* NextID and UnsafeNextID.                                                *)
(***************************************************************************)
\* p is executing the body of UnsafeNextID (lines 74-94)
InBody(p) == pc[p] \notin {"idle", "lock", "unlock"}

\* another goroutine is inside the body of UnsafeNextID on w
Overlaps(p, w) == \E q \in Procs \ {p} : wk[q] = w /\ InBody(q)

W(p) == worker[wk[p]]

\* line 64: a goroutine calls w.NextID()
CallNextID(p, w) ==
    /\ ~fatal
    /\ pc[p] = "idle"
    /\ worker[w].built
    /\ left > 0
    /\ left' = left - 1
    /\ pc' = [pc EXCEPT ![p] = "lock"]
    /\ wk' = [wk EXCEPT ![p] = w]
    /\ safe' = [safe EXCEPT ![p] = TRUE]
    /\ UNCHANGED <<now, backs, fatal, worker, mutex, timestamp, ts, site, hist,
                   raced, args, issued>>

\* (a slip: the mutex is taken although another goroutine holds it)
LockNoWait(p) ==
    /\ ~fatal
    /\ pc[p] = "lock"
    /\ mutex' = [mutex EXCEPT ![wk[p]] = p]
    /\ pc' = [pc EXCEPT ![p] = "L74"]
    /\ UNCHANGED <<now, backs, fatal, worker, wk, safe, timestamp, ts, site,
                   hist, left, raced, args, issued>>

\* line 65: w.mutex.Lock()
Lock(p) ==
    /\ ~fatal
    /\ pc[p] = "lock"
    /\ mutex[wk[p]] = NoProc
    /\ mutex' = [mutex EXCEPT ![wk[p]] = p]
    /\ pc' = [pc EXCEPT ![p] = "L74"]
    /\ raced' = [raced EXCEPT ![wk[p]] = @ \/ Overlaps(p, wk[p])]
    /\ UNCHANGED <<now, backs, fatal, worker, wk, safe, timestamp, ts, site,
                   hist, left, args, issued>>

\* line 73: a goroutine calls w.UnsafeNextID() directly
CallUnsafeNextID(p, w) ==
    /\ ~fatal
    /\ pc[p] = "idle"
    /\ worker[w].built
    /\ left > 0
    /\ left' = left - 1
    /\ pc' = [pc EXCEPT ![p] = "L74"]
    /\ wk' = [wk EXCEPT ![p] = w]
    /\ safe' = [safe EXCEPT ![p] = FALSE]
    /\ raced' = [raced EXCEPT ![w] = @ \/ Overlaps(p, w)]
    /\ UNCHANGED <<now, backs, fatal, worker, mutex, timestamp, ts, site, hist,
                   args, issued>>

\* line 74: timestamp := w.Time()
ReadTime(p) ==
    /\ ~fatal
    /\ pc[p] = "L74"
    /\ timestamp' = [timestamp EXCEPT ![p] = Time(W(p).Frequency)]
    /\ read' = [read EXCEPT ![p] = Time(W(p).Frequency)]
    /\ lts0' = [lts0 EXCEPT ![p] = W(p).LastTimeStamp]
    /\ seq0' = [seq0 EXCEPT ![p] = W(p).Sequence]
    /\ pc' = [pc EXCEPT ![p] = "L76"]
    /\ UNCHANGED <<now, backs, fatal, worker, mutex, wk, safe, ts, site, took,
                   left, raced, args, issued>>

\* the condition of line 76
ClockMovedBack(lastTimeStamp, t) == lastTimeStamp > t

\* line 76: if w.LastTimeStamp > timestamp { w.waitForNextTime() }
CheckBackward(p) ==
    /\ ~fatal
    /\ pc[p] = "L76"
    /\ IF ClockMovedBack(W(p).LastTimeStamp, timestamp[p])
       THEN /\ pc' = [pc EXCEPT ![p] = "w103"]
            /\ site' = [site EXCEPT ![p] = 77]
            /\ took' = [took EXCEPT ![p] = @ \cup {"back"}]
       ELSE /\ pc' = [pc EXCEPT ![p] = "L80"]
            /\ UNCHANGED <<site, took>>
    /\ UNCHANGED <<now, backs, fatal, worker, mutex, wk, safe, timestamp, ts,
                   lts0, seq0, read, left, raced, args, issued>>

\* lines 103 and 105: ts = w.Time()
WaitReadTime(p) ==
    /\ ~fatal
    /\ pc[p] = "w103"
    /\ ts' = [ts EXCEPT ![p] = Time(W(p).Frequency)]
    /\ pc' = [pc EXCEPT ![p] = "w104"]
    /\ UNCHANGED <<now, backs, fatal, worker, mutex, wk, safe, timestamp, site,
                   hist, left, raced, args, issued>>

\* (a slip: the loop ends on a tick equal to LastTimeStamp)
KeepWaitingStrict(t, lastTimeStamp) == t < lastTimeStamp

\* (a slip: the loop of line 104 is never entered)
KeepWaitingNever(t, lastTimeStamp) == FALSE

\* the loop condition of line 104
KeepWaiting(t, lastTimeStamp) == t <= lastTimeStamp

\* line 104: for ts <= w.LastTimeStamp
WaitTest(p) ==
    /\ ~fatal
    /\ pc[p] = "w104"
    /\ pc' = [pc EXCEPT ![p] =
                IF KeepWaiting(ts[p], W(p).LastTimeStamp) THEN "w103"
                ELSE "w107"]
    /\ UNCHANGED <<now, backs, fatal, worker, mutex, wk, safe, timestamp, ts,
                   site, hist, left, raced, args, issued>>

\* (a variant: the caller takes the tick that waitForNextTime stored as its
\* timestamp, after the drift wait as after the wrap wait)
WaitDoneAdopts(p) ==
    /\ ~fatal
    /\ pc[p] = "w107"
    /\ worker' = [worker EXCEPT ![wk[p]].LastTimeStamp = ts[p]]
    /\ pc' = [pc EXCEPT ![p] = IF site[p] = 77 THEN "L80" ELSE "L84"]
    /\ site' = [site EXCEPT ![p] = 0]
    /\ timestamp' = [timestamp EXCEPT ![p] = ts[p]]
    /\ ts' = [ts EXCEPT ![p] = 0]
    /\ UNCHANGED <<now, backs, fatal, mutex, wk, safe, hist, left, raced,
                   args, issued>>

\* (a slip: line 107 stores a fresh clock read instead of ts)
WaitDoneRereads(p) ==
    /\ ~fatal
    /\ pc[p] = "w107"
    /\ worker' = [worker EXCEPT
                    ![wk[p]].LastTimeStamp = Time(W(p).Frequency)]
    /\ pc' = [pc EXCEPT ![p] = IF site[p] = 77 THEN "L80" ELSE "L84"]
    /\ site' = [site EXCEPT ![p] = 0]
    /\ ts' = [ts EXCEPT ![p] = 0]
    /\ UNCHANGED <<now, backs, fatal, mutex, wk, safe, timestamp, hist, left,
                   raced, args, issued>>

\* line 107: w.LastTimeStamp = ts, and the return to the caller
WaitDone(p) ==
    /\ ~fatal
    /\ pc[p] = "w107"
    /\ worker' = [worker EXCEPT ![wk[p]].LastTimeStamp = ts[p]]
    /\ pc' = [pc EXCEPT ![p] = IF site[p] = 77 THEN "L80" ELSE "L84"]
    /\ site' = [site EXCEPT ![p] = 0]
    /\ ts' = [ts EXCEPT ![p] = 0]
    /\ UNCHANGED <<now, backs, fatal, mutex, wk, safe, timestamp, hist, left,
                   raced, args, issued>>

\* (a slip: the same tick is taken for a new one)
CheckSameTickNever(p) ==
    /\ ~fatal
    /\ pc[p] = "L80"
    /\ pc' = [pc EXCEPT ![p] = "L87"]
    /\ took' = [took EXCEPT ![p] = @ \cup {"new"}]
    /\ UNCHANGED <<now, backs, fatal, worker, mutex, wk, safe, timestamp, ts,
                   site, lts0, seq0, read, left, raced, args, issued>>

\* line 80: if w.LastTimeStamp == timestamp
CheckSameTick(p) ==
    /\ ~fatal
    /\ pc[p] = "L80"
    /\ IF W(p).LastTimeStamp = timestamp[p]
       THEN /\ pc' = [pc EXCEPT ![p] = "L81"]
            /\ took' = [took EXCEPT ![p] = @ \cup {"same"}]
       ELSE /\ pc' = [pc EXCEPT ![p] = "L87"]
            /\ took' = [took EXCEPT ![p] = @ \cup {"new"}]
    /\ UNCHANGED <<now, backs, fatal, worker, mutex, wk, safe, timestamp, ts,
                   site, lts0, seq0, read, left, raced, args, issued>>

\* (a slip: the increment without the modulo)
NextSequenceNoWrap(sequence, sequenceBits) == sequence + 1

\* the right-hand side of line 81
NextSequence(sequence, sequenceBits) == (sequence + 1) % Pow2(sequenceBits)

\* line 81: w.Sequence = (w.Sequence + 1) % (1 << w.SequenceBits)
IncSequence(p) ==
    /\ ~fatal
    /\ pc[p] = "L81"
    /\ worker' = [worker EXCEPT ![wk[p]].Sequence =
                    NextSequence(W(p).Sequence, W(p).SequenceBits)]
    /\ pc' = [pc EXCEPT ![p] = "L82"]
    /\ UNCHANGED <<now, backs, fatal, mutex, wk, safe, timestamp, ts, site,
                   hist, left, raced, args, issued>>

\* line 82: if w.Sequence == 0 { w.waitForNextTime() ...
CheckWrap(p) ==
    /\ ~fatal
    /\ pc[p] = "L82"
    /\ IF W(p).Sequence = 0
       THEN /\ pc' = [pc EXCEPT ![p] = "w103"]
            /\ site' = [site EXCEPT ![p] = 83]
            /\ took' = [took EXCEPT ![p] = @ \cup {"wrap"}]
       ELSE /\ pc' = [pc EXCEPT ![p] = "L90"]
            /\ UNCHANGED <<site, took>>
    /\ UNCHANGED <<now, backs, fatal, worker, mutex, wk, safe, timestamp, ts,
                   lts0, seq0, read, left, raced, args, issued>>

\* (a slip: the tick waitForNextTime stored is not taken over)
AdoptWaitSkipped(p) ==
    /\ ~fatal
    /\ pc[p] = "L84"
    /\ pc' = [pc EXCEPT ![p] = "L90"]
    /\ UNCHANGED <<now, backs, fatal, worker, mutex, wk, safe, timestamp, ts,
                   site, hist, left, raced, args, issued>>

\* line 84: timestamp = w.LastTimeStamp
AdoptWait(p) ==
    /\ ~fatal
    /\ pc[p] = "L84"
    /\ timestamp' = [timestamp EXCEPT ![p] = W(p).LastTimeStamp]
    /\ pc' = [pc EXCEPT ![p] = "L90"]
    /\ UNCHANGED <<now, backs, fatal, worker, mutex, wk, safe, ts, site, hist,
                   left, raced, args, issued>>

\* (a slip: lines 86-88 are left out, Sequence is not reset)
ResetSequenceSkipped(p) ==
    /\ ~fatal
    /\ pc[p] = "L87"
    /\ pc' = [pc EXCEPT ![p] = "L90"]
    /\ UNCHANGED <<now, backs, fatal, worker, mutex, wk, safe, timestamp, ts,
                   site, hist, left, raced, args, issued>>

\* (a slip: lines 86-88 clear SequenceBits instead of Sequence)
ResetSequenceBits(p) ==
    /\ ~fatal
    /\ pc[p] = "L87"
    /\ worker' = [worker EXCEPT ![wk[p]].SequenceBits = 0]
    /\ pc' = [pc EXCEPT ![p] = "L90"]
    /\ UNCHANGED <<now, backs, fatal, mutex, wk, safe, timestamp, ts, site,
                   hist, left, raced, args, issued>>

\* line 87: w.Sequence = 0
ResetSequence(p) ==
    /\ ~fatal
    /\ pc[p] = "L87"
    /\ worker' = [worker EXCEPT ![wk[p]].Sequence = 0]
    /\ pc' = [pc EXCEPT ![p] = "L90"]
    /\ UNCHANGED <<now, backs, fatal, mutex, wk, safe, timestamp, ts, site,
                   hist, left, raced, args, issued>>

\* (a slip: line 90 is left out)
StoreTimeStampSkipped(p) ==
    /\ ~fatal
    /\ pc[p] = "L90"
    /\ pc' = [pc EXCEPT ![p] = "L92"]
    /\ UNCHANGED <<now, backs, fatal, worker, mutex, wk, safe, timestamp, ts,
                   site, hist, left, raced, args, issued>>

\* line 90: w.LastTimeStamp = timestamp
StoreTimeStamp(p) ==
    /\ ~fatal
    /\ pc[p] = "L90"
    /\ worker' = [worker EXCEPT ![wk[p]].LastTimeStamp = timestamp[p]]
    /\ pc' = [pc EXCEPT ![p] = "L92"]
    /\ UNCHANGED <<now, backs, fatal, mutex, wk, safe, timestamp, ts, site,
                   hist, left, raced, args, issued>>

\* (a slip: the worker ID is left out of the ID)
ComposeIDNoWorker(t, epoch, timeStampShift, id, idShift, sequence) ==
    BitOr(Shl(t - epoch, timeStampShift), sequence)

\* (a slip: the timestamp is shifted by IDShift)
ComposeIDWrongShift(t, epoch, timeStampShift, id, idShift, sequence) ==
    BitOr(BitOr(Shl(t - epoch, idShift), Shl(id, idShift)), sequence)

\* the expression of lines 92-94
ComposeID(t, epoch, timeStampShift, id, idShift, sequence) ==
    BitOr(BitOr(Shl(t - epoch, timeStampShift), Shl(id, idShift)), sequence)

\* lines 92-94: return the ID; the call is over (NextID still holds the lock)
Return(p) ==
    /\ ~fatal
    /\ pc[p] = "L92"
    /\ issued' = [issued EXCEPT ![wk[p]] = Append(@,
                    [id |-> ComposeID(timestamp[p], W(p).CustomEpoch,
                                      W(p).TimeStampShift, W(p).ID,
                                      W(p).IDShift, W(p).Sequence),
                     tick |-> timestamp[p],
                     sequence |-> W(p).Sequence,
                     read |-> read[p],
                     before |-> lts0[p],
                     seq0 |-> seq0[p],
                     took |-> took[p]])]
    /\ pc' = [pc EXCEPT ![p] = IF safe[p] THEN "unlock" ELSE "idle"]
    /\ wk' = [wk EXCEPT ![p] = IF safe[p] THEN @ ELSE NoWorkerName]
    /\ timestamp' = [timestamp EXCEPT ![p] = 0]
    /\ lts0' = [lts0 EXCEPT ![p] = 0]
    /\ seq0' = [seq0 EXCEPT ![p] = 0]
    /\ read' = [read EXCEPT ![p] = 0]
    /\ took' = [took EXCEPT ![p] = {}]
    /\ UNCHANGED <<now, backs, fatal, worker, mutex, safe, ts, site, left,
                   raced, args>>

\* (a slip: NextID returns without releasing the mutex)
UnlockKeepsMutex(p) ==
    /\ ~fatal
    /\ pc[p] = "unlock"
    /\ pc' = [pc EXCEPT ![p] = "idle"]
    /\ wk' = [wk EXCEPT ![p] = NoWorkerName]
    /\ safe' = [safe EXCEPT ![p] = FALSE]
    /\ UNCHANGED <<now, backs, fatal, worker, mutex, timestamp, ts, site,
                   hist, left, raced, args, issued>>

\* line 66: the deferred w.mutex.Unlock()
Unlock(p) ==
    /\ ~fatal
    /\ pc[p] = "unlock"
    /\ mutex' = [mutex EXCEPT ![wk[p]] = NoProc]
    /\ pc' = [pc EXCEPT ![p] = "idle"]
    /\ wk' = [wk EXCEPT ![p] = NoWorkerName]
    /\ safe' = [safe EXCEPT ![p] = FALSE]
    /\ UNCHANGED <<now, backs, fatal, worker, timestamp, ts, site,
                   hist, left, raced, args, issued>>

\* the caller's obligation for UnsafeNextID: no other call on w is under way
SingleCaller(p, w) == \A q \in Procs \ {p} : pc[q] = "idle" \/ wk[q] # w

\* NextID is not mixed with a running UnsafeNextID of another goroutine
NoUnsafeCaller(p, w) ==
    \A q \in Procs \ {p} : pc[q] = "idle" \/ wk[q] # w \/ safe[q]

(***************************************************************************)
(* The specifications.                                                     *)
(*   Spec      one Worker, built by NewWorker with any of the arguments,   *)
(*             called by goroutines that keep the caller's obligation of   *)
(*             UnsafeNextID.                                               *)
(*   TwoSpec   two Workers of the same widths and epoch, called likewise.  *)
(*   LiveSpec  Spec with fewer calls and the fairness of the clock, the    *)
(*             scheduler and the mutex.                                    *)
(*   RaceSpec  one Worker whose callers run UnsafeNextID with no regard    *)
(*             for each other, under a clock that never goes backward.     *)
(***************************************************************************)
ProcInit ==
    /\ pc = [p \in Procs |-> "idle"]
    /\ wk = [p \in Procs |-> NoWorkerName]
    /\ safe = [p \in Procs |-> FALSE]
    /\ timestamp = [p \in Procs |-> 0]
    /\ ts = [p \in Procs |-> 0]
    /\ site = [p \in Procs |-> 0]
    /\ lts0 = [p \in Procs |-> 0]
    /\ seq0 = [p \in Procs |-> 0]
    /\ read = [p \in Procs |-> 0]
    /\ took = [p \in Procs |-> {}]

\* before any Worker is built; the goroutines will start n calls
InitWith(n) ==
    /\ now = MaxEpoch
    /\ backs = 0
    /\ fatal = FALSE
    /\ worker = [w \in Workers |-> NoWorker]
    /\ mutex = [w \in Workers |-> NoProc]
    /\ ProcInit
    /\ left = n
    /\ raced = [w \in Workers |-> FALSE]
    /\ args = [w \in Workers |-> NoArgs]
    /\ issued = [w \in Workers |-> <<>>]

Init == InitWith(MaxCalls)

\* the program calls NewWorker for one of the Workers ws
Construct(ws) ==
    \E w \in ws, id \in 0 .. MaxID, epoch \in 0 .. MaxEpoch,
       idBits \in 0 .. MaxWidth, sequenceBits \in 0 .. MaxWidth,
       timestampBits \in MinTimeStampBits .. MaxTimeStampBits,
       frequency \in Frequencies :
        NewWorker(w, id, epoch, idBits, sequenceBits, timestampBits, frequency)

ConstructOne == Construct({"w1"})

\* a step of a call that is under way
Step(p) ==
    \/ Lock(p)
    \/ ReadTime(p)
    \/ CheckBackward(p)
    \/ WaitReadTime(p)
    \/ WaitTest(p)
    \/ WaitDone(p)
    \/ CheckSameTick(p)
    \/ IncSequence(p)
    \/ CheckWrap(p)
    \/ AdoptWait(p)
    \/ ResetSequence(p)
    \/ StoreTimeStamp(p)
    \/ Return(p)
    \/ Unlock(p)

\* a goroutine starts a call, keeping the caller's obligation
Call(p, w) ==
    \/ NoUnsafeCaller(p, w) /\ CallNextID(p, w)
    \/ SingleCaller(p, w) /\ CallUnsafeNextID(p, w)

Next ==
    \/ ConstructOne
    \/ Tick
    \/ ClockBack
    \/ \E p \in Procs, w \in Workers : Call(p, w)
    \/ \E p \in Procs : Step(p)

Spec == Init /\ [][Next]_vars

\* The clock keeps going forward, every goroutine that can take a step of its
\* call takes one in the end, and the mutex is fair: a goroutine that finds
\* it free again and again gets it.
Fairness ==
    /\ WF_vars(Tick)
    /\ \A p \in Procs : WF_vars(Step(p)) /\ SF_vars(Lock(p))

LiveInit == InitWith(MaxCallsTwo)

LiveSpec == LiveInit /\ [][Next]_vars /\ Fairness

\* two Workers built at the same instant with the same widths and epoch
TwoInit ==
    /\ now = MaxEpoch
    /\ backs = 0
    /\ fatal = FALSE
    /\ \E epoch \in 0 .. MaxEpoch, idBits \in 0 .. MaxWidth,
          sequenceBits \in 0 .. MaxWidth,
          timestampBits \in MinTimeStampBits .. MaxTimeStampBits,
          frequency \in Frequencies :
          /\ ~BadTotalBits(TotalBitsOf(idBits, sequenceBits, timestampBits))
          /\ \E ids \in [Workers -> 0 .. MaxID] :
                /\ worker = [w \in Workers |->
                      WorkerLiteral(ids[w], epoch, idBits, sequenceBits,
                                    timestampBits, frequency)]
                /\ args = [w \in Workers |->
                      [called |-> TRUE, id |-> ids[w], epoch |-> epoch,
                       idBits |-> idBits, sequenceBits |-> sequenceBits,
                       timestampBits |-> timestampBits,
                       frequency |-> frequency, at |-> now]]
    /\ mutex = [w \in Workers |-> NoProc]
    /\ ProcInit
    /\ left = MaxCallsTwo
    /\ raced = [w \in Workers |-> FALSE]
    /\ issued = [w \in Workers |-> <<>>]

TwoNext ==
    \/ Tick
    \/ ClockBack
    \/ \E p \in Procs, w \in Workers : Call(p, w)
    \/ \E p \in Procs : Step(p)

TwoSpec == TwoInit /\ [][TwoNext]_vars

\* a step of a call of UnsafeNextID that is under way
UnsafeStep(p) ==
    \/ ReadTime(p)
    \/ CheckBackward(p)
    \/ WaitReadTime(p)
    \/ WaitTest(p)
    \/ WaitDone(p)
    \/ CheckSameTick(p)
    \/ IncSequence(p)
    \/ CheckWrap(p)
    \/ AdoptWait(p)
    \/ ResetSequence(p)
    \/ StoreTimeStamp(p)
    \/ Return(p)

RaceNext ==
    \/ ConstructOne
    \/ Tick
    \/ \E p \in Procs : CallUnsafeNextID(p, "w1")
    \/ \E p \in Procs : UnsafeStep(p)

RaceInit == InitWith(MaxCallsTwo)

RaceSpec == RaceInit /\ [][RaceNext]_vars

(***************************************************************************)
(* What the properties are stated with.                                    *)
(***************************************************************************)
\* the fields of an ID of Worker w, by undoing the shifts and masks
SequenceField(w, id) == id % Pow2(worker[w].SequenceBits)
WorkerField(w, id) ==
    (id \div Pow2(worker[w].IDShift)) % Pow2(worker[w].IDBits)
TimestampField(w, id) ==
    (id \div Pow2(worker[w].TimeStampShift)) % Pow2(worker[w].TimeStampBits)

\* 0 <= workerID < 2^idBits
InRange(w) ==
    /\ worker[w].built
    /\ 0 <= worker[w].ID
    /\ worker[w].ID < Pow2(worker[w].IDBits)

\* 0 <= tick - epoch < 2^timestampBits
InField(w, tick) ==
    /\ 0 <= tick - worker[w].CustomEpoch
    /\ tick - worker[w].CustomEpoch < Pow2(worker[w].TimeStampBits)

\* every ID that w returned was made from a tick inside the timestamp field
AllInField(w) ==
    \A i \in 1 .. Len(issued[w]) : InField(w, issued[w][i].tick)

\* w returned the same ID twice
Duplicate(w) ==
    \E i, j \in 1 .. Len(issued[w]) : i < j /\ issued[w][i].id = issued[w][j].id

\* (t1, s1) < (t2, s2), by the tick and then by the sequence
PairLess(t1, s1, t2, s2) == t1 < t2 \/ (t1 = t2 /\ s1 < s2)

(***************************************************************************)
(* C1  Uniqueness: a Worker in range, called through NextID by concurrent  *)
(* goroutines or through UnsafeNextID by one goroutine at a time, never    *)
(* returns the same ID twice, whatever the clock does (stall, advance,     *)
(* jump backward).  Violated: after a backward jump the call returns an    *)
(* ID made from the stale clock read (see C6).                             *)
(***************************************************************************)
C1_Uniqueness ==
    \A w \in Workers : InRange(w) /\ AllInField(w) => ~Duplicate(w)

(***************************************************************************)
(* C2  Monotonicity: while the clock has never gone backward, successive   *)
(* IDs of one Worker have strictly increasing (tick - epoch, sequence)     *)
(* pairs, and for a Worker in range the IDs themselves and their decoded   *)
(* (timestamp field, sequence field) pairs increase strictly.              *)
(***************************************************************************)
C2_Monotonic ==
    backs = 0 =>
      \A w \in Workers : \A i \in 1 .. Len(issued[w]) - 1 :
        LET a == issued[w][i]
            b == issued[w][i + 1]
        IN  /\ PairLess(a.tick - worker[w].CustomEpoch, a.sequence,
                        b.tick - worker[w].CustomEpoch, b.sequence)
            /\ InRange(w) /\ AllInField(w) =>
                  /\ a.id < b.id
                  /\ PairLess(TimestampField(w, a.id), SequenceField(w, a.id),
                              TimestampField(w, b.id), SequenceField(w, b.id))

\* two IDs were returned in one tick and one in a later tick, clock never back
C2_Witness ==
    /\ backs = 0
    /\ \E w \in Workers :
         /\ InRange(w)
         /\ Len(issued[w]) = 3
         /\ issued[w][1].tick = issued[w][2].tick
         /\ issued[w][2].tick < issued[w][3].tick

(***************************************************************************)
(* C3  Two Workers of the same widths and epoch whose worker IDs differ    *)
(* and are both in range never return the same ID, whatever the clock      *)
(* does and however their calls interleave.                                *)
(***************************************************************************)
SameLayout(v, w) ==
    /\ worker[v].IDBits = worker[w].IDBits
    /\ worker[v].SequenceBits = worker[w].SequenceBits
    /\ worker[v].TimeStampBits = worker[w].TimeStampBits
    /\ worker[v].CustomEpoch = worker[w].CustomEpoch

C3_WorkersDisjoint ==
    \A v, w \in Workers :
        /\ v # w
        /\ InRange(v) /\ InRange(w)
        /\ SameLayout(v, w)
        /\ worker[v].ID # worker[w].ID
        /\ AllInField(v) /\ AllInField(w)
        => \A i \in 1 .. Len(issued[v]), j \in 1 .. Len(issued[w]) :
              issued[v][i].id # issued[w][j].id

\* both Workers returned an ID made from the same tick and sequence
C3_Witness ==
    /\ InRange("w1") /\ InRange("w2")
    /\ worker["w1"].ID # worker["w2"].ID
    /\ Len(issued["w1"]) = 1 /\ Len(issued["w2"]) = 1
    /\ issued["w1"][1].tick = issued["w2"][1].tick
    /\ issued["w1"][1].sequence = issued["w2"][1].sequence
    /\ backs = 1

(***************************************************************************)
(* C4  Mutual exclusion on the safe path: no two NextID calls on one       *)
(* Worker are inside the body of UnsafeNextID at once, and a NextID call   *)
(* holds the Worker's mutex from its clock read to its unlock, the         *)
(* spin-wait of waitForNextTime included.                                  *)
(***************************************************************************)
C4_MutualExclusion ==
    /\ \A p, q \in Procs :
          p # q /\ safe[p] /\ safe[q] /\ InBody(p) /\ InBody(q)
          => wk[p] # wk[q]
    /\ \A p \in Procs :
          safe[p] /\ (InBody(p) \/ pc[p] = "unlock") => mutex[wk[p]] = p

\* one NextID call spins in waitForNextTime while another waits for the lock
C4_Witness ==
    \E p, q \in Procs :
        /\ p # q
        /\ safe[p] /\ pc[p] = "w104" /\ KeepWaiting(ts[p], W(p).LastTimeStamp)
        /\ safe[q] /\ pc[q] = "lock" /\ wk[q] = wk[p]

(***************************************************************************)
(* C5  Termination: when the clock keeps going forward, every call that    *)
(* was started returns (a call is still excused while its Worker's         *)
(* LastTimeStamp is the last tick MaxTick the clock of the model reports,  *)
(* which no later tick can exceed), and the mutex is held only by a        *)
(* goroutine that is inside NextID, so that it is released after every     *)
(* call.                                                                   *)
(***************************************************************************)
\* the Worker of p's call has used up the ticks of the model's clock
ClockUsedUp(p) ==
    \E w \in Workers : wk[p] = w /\ worker[w].LastTimeStamp >= MaxTick

C5_Termination ==
    /\ \A p \in Procs :
          (pc[p] # "idle") ~> (pc[p] = "idle" \/ ClockUsedUp(p))
    /\ [](\A w \in Workers : mutex[w] # NoProc =>
            /\ safe[mutex[w]]
            /\ wk[mutex[w]] = w
            /\ pc[mutex[w]] \notin {"idle", "lock"})

\* a NextID call that had to wait for the clock after a backward jump has
\* returned and released the mutex, and the call that waited for it has it
C5_Witness ==
    \E p, q \in Procs, w \in Workers :
        /\ p # q
        /\ Len(issued[w]) = 1
        /\ "back" \in issued[w][1].took
        /\ pc[p] = "idle"
        /\ pc[q] = "L74" /\ safe[q] /\ wk[q] = w /\ mutex[w] = q
        /\ worker[w].LastTimeStamp < MaxTick

(***************************************************************************)
(* C6  Clock moved backward: a call whose clock read is lower than         *)
(* LastTimeStamp waits until the clock is past LastTimeStamp and leaves    *)
(* LastTimeStamp greater than it was when the call began.  Violated:       *)
(* line 90 stores the stale clock read over what waitForNextTime stored.   *)
(***************************************************************************)
C6_BackwardRaisesLastTimeStamp ==
    \A p \in Procs :
        pc[p] = "L92" /\ "back" \in took[p]
        => W(p).LastTimeStamp > lts0[p]

(***************************************************************************)
(* C7  Sequence exhaustion forces a tick advance: a call that found        *)
(* LastTimeStamp equal to its clock read and wrapped Sequence to 0         *)
(* returns an ID made from a tick greater than that LastTimeStamp, with    *)
(* sequence 0, never one of the old tick; and with sequenceBits = 0        *)
(* successive IDs differ in their tick (for a Worker in range, in their    *)
(* timestamp field) by at least 1.                                         *)
(***************************************************************************)
C7_WrapAdvancesTick ==
    \A w \in Workers :
      /\ \A i \in 1 .. Len(issued[w]) :
            LET r == issued[w][i] IN
            "wrap" \in r.took =>
              /\ r.read = r.before
              /\ r.tick > r.before
              /\ r.sequence = 0
              /\ InRange(w) /\ InField(w, r.tick) =>
                    /\ SequenceField(w, r.id) = 0
                    /\ TimestampField(w, r.id) = r.tick - worker[w].CustomEpoch
                    /\ TimestampField(w, r.id) > r.before - worker[w].CustomEpoch
      /\ worker[w].built /\ worker[w].SequenceBits = 0 =>
            \A i \in 1 .. Len(issued[w]) - 1 :
                LET a == issued[w][i]
                    b == issued[w][i + 1]
                IN  /\ a.tick # b.tick
                    /\ InRange(w) /\ AllInField(w) =>
                          TimestampField(w, a.id) # TimestampField(w, b.id)

\* the third ID of a Worker with sequenceBits = 1 came from a call that
\* wrapped Sequence, after two IDs of one tick
C7_Witness ==
    \E w \in Workers :
        /\ InRange(w)
        /\ worker[w].SequenceBits = 1
        /\ Len(issued[w]) = 3
        /\ issued[w][2].tick = issued[w][1].tick
        /\ "wrap" \in issued[w][3].took

(***************************************************************************)
(* C8  Field extraction round trip: every ID returned by a Worker in       *)
(* range, made from a tick inside the timestamp field, decodes to the      *)
(* worker field = the Worker's ID, the sequence field = the Sequence it    *)
(* was made from (below 2^sequenceBits) and the timestamp field = the      *)
(* tick it was made from minus the epoch.                                  *)
(***************************************************************************)
C8_RoundTrip ==
    \A w \in Workers : \A i \in 1 .. Len(issued[w]) :
        LET r == issued[w][i] IN
        InRange(w) /\ InField(w, r.tick) =>
          /\ WorkerField(w, r.id) = args[w].id
          /\ SequenceField(w, r.id) = r.sequence
          /\ SequenceField(w, r.id) < Pow2(args[w].sequenceBits)
          /\ TimestampField(w, r.id) = r.tick - args[w].epoch

\* an ID with all three fields non-zero was returned
C8_Witness ==
    \E w \in Workers : \E i \in 1 .. Len(issued[w]) :
        /\ InRange(w)
        /\ worker[w].ID = 1
        /\ worker[w].CustomEpoch = 1
        /\ issued[w][i].sequence = 1
        /\ issued[w][i].tick > 1

(***************************************************************************)
(* C9  Construction validation: NewWorker ends in log.Fatal exactly when   *)
(* idBits + sequenceBits + timestampBits + 1 is not divisible by 6         *)
(* (5, 13, 40 fails; 5, 13, 41 succeeds).  When it succeeds the Worker has *)
(* Sequence = 0, LastTimeStamp = the tick of the moment, IDShift =         *)
(* sequenceBits, TimeStampShift = sequenceBits + idBits, TotalBits = the   *)
(* sum; a Worker whose construction failed never produces an ID.           *)
(***************************************************************************)
\* no call has been started on w yet
Fresh(w) == issued[w] = <<>> /\ \A p \in Procs : wk[p] # w

C9_Construction ==
    /\ BadTotalBits(TotalBitsOf(5, 13, 40))
    /\ ~BadTotalBits(TotalBitsOf(5, 13, 41))
    /\ fatal <=>
          \E w \in Workers :
              /\ args[w].called
              /\ (args[w].idBits + args[w].sequenceBits
                    + args[w].timestampBits + 1) % 6 # 0
    /\ \A w \in Workers :
          /\ worker[w].built <=>
                /\ args[w].called
                /\ (args[w].idBits + args[w].sequenceBits
                      + args[w].timestampBits + 1) % 6 = 0
          /\ ~worker[w].built => Fresh(w)
          /\ worker[w].built =>
                /\ worker[w].IDShift = args[w].sequenceBits
                /\ worker[w].TimeStampShift
                      = args[w].sequenceBits + args[w].idBits
                /\ worker[w].TotalBits
                      = args[w].idBits + args[w].sequenceBits
                        + args[w].timestampBits + 1
                /\ Fresh(w) =>
                      /\ worker[w].Sequence = 0
                      /\ worker[w].LastTimeStamp
                            = args[w].at \div args[w].frequency

\* NewWorker was given widths whose sum + 1 is 7, and the process has exited
C9_Witness ==
    /\ fatal
    /\ \E w \in Workers :
          /\ args[w].called
          /\ args[w].idBits + args[w].sequenceBits + args[w].timestampBits = 6
          /\ ~worker[w].built

(***************************************************************************)
(* C10  UnsafeNextID gives no uniqueness under concurrency: with a clock   *)
(* that never goes backward, two goroutines that run UnsafeNextID on one   *)
(* Worker at the same time can both return the same ID (the witness), and  *)
(* a Worker in range returns an ID twice only when two calls overlapped.   *)
(***************************************************************************)
C10_DuplicateOnlyByRace ==
    \A w \in Workers :
        backs = 0 /\ InRange(w) /\ AllInField(w) /\ Duplicate(w) => raced[w]

\* two overlapping calls of UnsafeNextID have returned the same ID
C10_Witness ==
    /\ backs = 0
    /\ \E w \in Workers :
          /\ InRange(w)
          /\ raced[w]
          /\ Len(issued[w]) = 2
          /\ issued[w][1].id = issued[w][2].id
    /\ \A p \in Procs : ~safe[p]

\* the last record of a sequence
Last(s) == s[Len(s)]

\* no call is inside the body of UnsafeNextID on Worker w
Quiet(w) == \A p \in Procs : ~(wk[p] = w /\ InBody(p))

\* the branches that the calls on Worker w have taken so far
BranchesTaken(w) == UNION {issued[w][i].took : i \in 1 .. Len(issued[w])}

(***************************************************************************)
(* C11  State matches the last ID: whenever a call of NextID or of         *)
(* UnsafeNextID (one caller at a time) has returned, LastTimeStamp -       *)
(* CustomEpoch is the value that was shifted into the timestamp field of   *)
(* the ID just returned and Sequence is its sequence field, whichever      *)
(* branch the call took; for a Worker in range with the tick in the field  *)
(* the two values are also what the ID decodes to.                         *)
(***************************************************************************)
C11_StateMatchesLastID ==
    \A w \in Workers :
        worker[w].built /\ Quiet(w) /\ issued[w] # <<>> =>
            LET r == Last(issued[w])
                shifted == r.tick - worker[w].CustomEpoch
            IN  /\ worker[w].LastTimeStamp - worker[w].CustomEpoch = shifted
                /\ worker[w].Sequence = r.sequence
                /\ r.id = ComposeID(worker[w].LastTimeStamp,
                                    worker[w].CustomEpoch,
                                    worker[w].TimeStampShift, worker[w].ID,
                                    worker[w].IDShift, worker[w].Sequence)
                /\ InRange(w) /\ InField(w, r.tick) =>
                      /\ TimestampField(w, r.id) =
                            worker[w].LastTimeStamp - worker[w].CustomEpoch
                      /\ SequenceField(w, r.id) = worker[w].Sequence

\* calls have returned on each of the four branches, the last one after a
\* backward clock jump, and no call is running
C11_Witness ==
    \E w \in Workers :
        /\ InRange(w)
        /\ Quiet(w)
        /\ issued[w] # <<>>
        /\ BranchesTaken(w) = {"same", "new", "wrap", "back"}
        /\ "back" \in Last(issued[w]).took
        /\ InField(w, Last(issued[w]).tick)
        /\ worker[w].LastTimeStamp = Last(issued[w]).tick

(***************************************************************************)
(* C12  Sequence range: in every reachable state of a Worker, the states   *)
(* inside a spin-wait included, 0 <= Sequence < 2^SequenceBits.            *)
(***************************************************************************)
C12_SequenceInRange ==
    \A w \in Workers :
        /\ 0 <= worker[w].Sequence
        /\ worker[w].Sequence < Pow2(worker[w].SequenceBits)

\* a call spins in waitForNextTime while Sequence has its largest value
C12_Witness ==
    \E p \in Procs :
        /\ pc[p] \in {"w103", "w104"}
        /\ W(p).SequenceBits = 1
        /\ W(p).Sequence = Pow2(W(p).SequenceBits) - 1

(***************************************************************************)
(* C13  The step of one call whose clock read is not below the             *)
(* LastTimeStamp it finds (one caller at a time): if the read equals       *)
(* LastTimeStamp and Sequence + 1 < 2^SequenceBits, the ID has the same    *)
(* tick and the sequence Sequence + 1; if the read is greater, the ID has  *)
(* the tick read and the sequence 0; in both cases LastTimeStamp is the    *)
(* tick read when the call returns.                                        *)
(***************************************************************************)
C13_StepFunction ==
    /\ \A p \in Procs :
          pc[p] = "L92" /\ lts0[p] <= read[p] =>
              /\ read[p] = lts0[p] /\ seq0[p] + 1 < Pow2(W(p).SequenceBits) =>
                    /\ took[p] = {"same"}
                    /\ timestamp[p] = lts0[p]
                    /\ W(p).Sequence = seq0[p] + 1
                    /\ W(p).LastTimeStamp = read[p]
              /\ read[p] > lts0[p] =>
                    /\ took[p] = {"new"}
                    /\ timestamp[p] = read[p]
                    /\ W(p).Sequence = 0
                    /\ W(p).LastTimeStamp = read[p]
    /\ \A w \in Workers : \A i \in 1 .. Len(issued[w]) :
          LET r == issued[w][i]
              idOf(t, s) == ComposeID(t, worker[w].CustomEpoch,
                                      worker[w].TimeStampShift, worker[w].ID,
                                      worker[w].IDShift, s)
          IN  r.before <= r.read =>
                /\ r.read = r.before
                      /\ r.seq0 + 1 < Pow2(worker[w].SequenceBits) =>
                      /\ r.tick = r.before
                      /\ r.sequence = r.seq0 + 1
                      /\ r.id = idOf(r.before, r.seq0 + 1)
                /\ r.read > r.before =>
                      /\ r.tick = r.read
                      /\ r.sequence = 0
                      /\ r.id = idOf(r.read, 0)
                /\ i = Len(issued[w]) /\ Quiet(w)
                      /\ (r.read > r.before
                            \/ r.seq0 + 1 < Pow2(worker[w].SequenceBits)) =>
                      worker[w].LastTimeStamp = r.read

\* a Worker has returned an ID of the tick it was in, with the next sequence,
\* and then an ID of a later tick with sequence 0
C13_Witness ==
    \E w \in Workers :
        /\ InRange(w)
        /\ Quiet(w)
        /\ Len(issued[w]) = 2
        /\ issued[w][1].took = {"same"}
        /\ issued[w][1].sequence = issued[w][1].seq0 + 1
        /\ issued[w][2].took = {"new"}
        /\ issued[w][2].read > issued[w][2].before
        /\ worker[w].LastTimeStamp = issued[w][2].read

\* the calls of lines 52-62: the sequence width, the ticks in a second at the
\* frequency given, and the "unique ids/second" figure of the comment
Presets ==
    { [name |-> "TenLengthWorker", sequenceBits |-> 13,
       ticksPerSecond |-> 1000, idsPerSecond |-> 8192000],
      [name |-> "NineLengthWorker", sequenceBits |-> 13,
       ticksPerSecond |-> 100, idsPerSecond |-> 819200],
      [name |-> "EightLengthWorker", sequenceBits |-> 12,
       ticksPerSecond |-> 10, idsPerSecond |-> 40960],
      [name |-> "SevenLengthWorker", sequenceBits |-> 10,
       ticksPerSecond |-> 1, idsPerSecond |-> 1024] }

\* the IDs that w returned from tick t, and those whose timestamp field is f
FromTick(w, t) == {i \in 1 .. Len(issued[w]) : issued[w][i].tick = t}
WithField(w, f) ==
    {i \in 1 .. Len(issued[w]) : TimestampField(w, issued[w][i].id) = f}

(***************************************************************************)
(* C14  Per-tick capacity: while the clock has never gone backward, the    *)
(* IDs one Worker has returned (one caller at a time) from one tick, and   *)
(* for a Worker in range the IDs with one value of the timestamp field,    *)
(* number at most 2^SequenceBits; the ids/second figure of each preset     *)
(* worker is 2^sequenceBits times its ticks per second.                    *)
(***************************************************************************)
C14_PerTickCapacity ==
    /\ \A w \in Workers :
          backs = 0 /\ worker[w].built =>
              /\ \A t \in 0 .. MaxTick :
                    Cardinality(FromTick(w, t)) <= Pow2(worker[w].SequenceBits)
              /\ InRange(w) /\ AllInField(w) =>
                    \A f \in 0 .. Pow2(worker[w].TimeStampBits) - 1 :
                        Cardinality(WithField(w, f))
                            <= Pow2(worker[w].SequenceBits)
    /\ \A q \in Presets :
          Pow2(q.sequenceBits) * q.ticksPerSecond = q.idsPerSecond

\* a tick is used up: 2^SequenceBits IDs have it, and the next call waited for
\* a later tick
C14_Witness ==
    /\ backs = 0
    /\ \E w \in Workers :
          /\ InRange(w)
          /\ AllInField(w)
          /\ worker[w].SequenceBits = 1
          /\ Len(issued[w]) = 3
          /\ Cardinality(FromTick(w, issued[w][1].tick))
                = Pow2(worker[w].SequenceBits)
          /\ "wrap" \in issued[w][3].took
          /\ issued[w][3].tick > issued[w][1].tick

(***************************************************************************)
(* C15  The literal fallthrough after a backward clock jump (one caller at *)
(* a time): a call whose first clock read is lower than LastTimeStamp      *)
(* compares, after the drift wait, the updated LastTimeStamp with that     *)
(* first read, so it takes the new-tick branch: Sequence is reset to 0 and *)
(* the ID is composed from the first (stale) read with sequence 0.         *)
(***************************************************************************)
C15_LiteralFallthrough ==
    /\ \A p \in Procs :
          "back" \in took[p] /\ pc[p] \in {"L80", "L87", "L90", "L92"} =>
              /\ read[p] < lts0[p]
              /\ timestamp[p] = read[p]
              /\ W(p).LastTimeStamp > timestamp[p] \/ pc[p] = "L92"
              /\ pc[p] # "L80" => took[p] = {"back", "new"}
              /\ pc[p] \in {"L90", "L92"} => W(p).Sequence = 0
    /\ \A w \in Workers : \A i \in 1 .. Len(issued[w]) :
          LET r == issued[w][i]
          IN  r.read < r.before =>
                /\ r.took = {"back", "new"}
                /\ r.tick = r.read
                /\ r.sequence = 0
                /\ r.id = ComposeID(r.read, worker[w].CustomEpoch,
                                    worker[w].TimeStampShift, worker[w].ID,
                                    worker[w].IDShift, 0)
                /\ InRange(w) /\ InField(w, r.read) =>
                      /\ SequenceField(w, r.id) = 0
                      /\ TimestampField(w, r.id)
                            = r.read - worker[w].CustomEpoch

\* a call that read a tick below LastTimeStamp, while Sequence was not 0, has
\* returned an ID of the tick it read with sequence 0
C15_Witness ==
    \E w \in Workers :
        /\ InRange(w)
        /\ Quiet(w)
        /\ issued[w] # <<>>
        /\ Last(issued[w]).read < Last(issued[w]).before
        /\ Last(issued[w]).seq0 = 1
        /\ Last(issued[w]).sequence = 0
        /\ Last(issued[w]).tick = Last(issued[w]).read
        /\ worker[w].Sequence = 0

(***************************************************************************)
(* C16  Non-negative, bounded IDs: for a Worker with TotalBits <= 63 and   *)
(* its ID in range, every returned ID made from a tick with tick - epoch   *)
(* inside the timestamp field satisfies 0 <= ID < 2^(TotalBits - 1): the   *)
(* reserved top bit of the TotalBits window is never set (and so, as       *)
(* TotalBits - 1 < 63, neither is the sign bit of the int64).              *)
(***************************************************************************)
C16_BoundedID ==
    \A w \in Workers : \A i \in 1 .. Len(issued[w]) :
        /\ worker[w].TotalBits <= 63
        /\ InRange(w)
        /\ InField(w, issued[w][i].tick)
        => /\ 0 <= issued[w][i].id
           /\ issued[w][i].id < Pow2(worker[w].TotalBits - 1)
           /\ worker[w].TotalBits - 1 < 63

\* an ID with the highest bit of its timestamp field set, and the worker and
\* sequence fields not 0, has been returned
C16_Witness ==
    \E w \in Workers : \E i \in 1 .. Len(issued[w]) :
        /\ worker[w].TotalBits <= 63
        /\ InRange(w)
        /\ InField(w, issued[w][i].tick)
        /\ worker[w].ID > 0
        /\ issued[w][i].sequence > 0
        /\ issued[w][i].id >= Pow2(worker[w].TotalBits - 2)

\* no call of NextID or UnsafeNextID is in progress on Worker w
Idle(w) == \A p \in Procs : wk[p] # w

\* the tick that w.Time() gave at line 45, when w was constructed
ConstructionTick(w) == args[w].at \div args[w].frequency

\* the calls on w that set Sequence to 0: new-tick branch or wrap
Resets(w) ==
    {i \in 1 .. Len(issued[w]) : issued[w][i].took \cap {"new", "wrap"} # {}}

\* the IDs that w returned after the last call that set Sequence to 0 (all of
\* them when there was no such call)
SinceReset(w) ==
    {i \in 1 .. Len(issued[w]) : \A j \in Resets(w) : j < i}

(***************************************************************************)
(* C17  Sequence as a count, as stated: whenever no call is in progress,   *)
(* Sequence equals the number of IDs the Worker has already returned whose *)
(* tick is the current LastTimeStamp.  Violated with a clock that only     *)
(* advances: the first ID of a tick later than the construction tick has   *)
(* sequence 0 and leaves Sequence = 0 with one ID of that tick returned.   *)
(***************************************************************************)
C17_SequenceIsCount ==
    \A w \in Workers :
        worker[w].built /\ Idle(w) =>
            worker[w].Sequence
                = Cardinality(FromTick(w, worker[w].LastTimeStamp))

(***************************************************************************)
(* C17 (amended)  Whenever no call is in progress (one caller at a time),  *)
(* Sequence equals the number of IDs returned after the last call that     *)
(* took the new-tick or the wrap branch, that call's own ID not counted    *)
(* (all IDs returned, when no call took them).  With a clock that never    *)
(* went backward this is the number of IDs already returned whose tick is  *)
(* LastTimeStamp while LastTimeStamp is the construction tick, and that    *)
(* number minus one afterwards.                                            *)
(***************************************************************************)
C17_SequenceIsIndex ==
    \A w \in Workers :
        worker[w].built /\ Idle(w) =>
            /\ worker[w].Sequence = Cardinality(SinceReset(w))
            /\ backs = 0 =>
                  LET n == Cardinality(FromTick(w, worker[w].LastTimeStamp))
                  IN  IF worker[w].LastTimeStamp = ConstructionTick(w)
                      THEN worker[w].Sequence = n
                      ELSE n >= 1 /\ worker[w].Sequence = n - 1

\* with a clock that only advanced, an idle Worker has returned two IDs of a
\* tick later than its construction tick, and Sequence is 1
C17_Witness ==
    /\ backs = 0
    /\ \E w \in Workers :
          /\ InRange(w)
          /\ Idle(w)
          /\ worker[w].LastTimeStamp > ConstructionTick(w)
          /\ Cardinality(FromTick(w, worker[w].LastTimeStamp)) = 2
          /\ worker[w].Sequence = 1

\* the configuration fields of a Worker record
Configuration(r) ==
    <<r.built, r.ID, r.IDBits, r.IDShift, r.SequenceBits, r.TimeStampBits,
      r.TimeStampShift, r.Frequency, r.TotalBits, r.CustomEpoch>>

\* the configuration that NewWorker gave Worker w from its arguments
ConstructedConfiguration(w) ==
    <<TRUE, args[w].id, args[w].idBits, args[w].sequenceBits,
      args[w].sequenceBits, args[w].timestampBits,
      args[w].sequenceBits + args[w].idBits, args[w].frequency,
      args[w].idBits + args[w].sequenceBits + args[w].timestampBits + 1,
      args[w].epoch>>

\* a call on Worker w is under way in this step (a call leaves wk on return)
Calling(w) == \E p \in Procs : wk[p] = w /\ pc[p] # "idle"

(***************************************************************************)
(* C18  Frame: NextID and UnsafeNextID change only LastTimeStamp and       *)
(* Sequence of their Worker (and its lock); ID, IDBits, IDShift,           *)
(* SequenceBits, TimeStampBits, TimeStampShift, Frequency, TotalBits and   *)
(* CustomEpoch keep the values of construction in every reachable state;   *)
(* and a step changes the state or the lock of a Worker only when a call   *)
(* on that very Worker takes it, so calls on one Worker never change       *)
(* another.                                                                *)
(***************************************************************************)
C18_Frame ==
    /\ [](\A w \in Workers :
            worker[w].built =>
                Configuration(worker[w]) = ConstructedConfiguration(w))
    /\ [][\A w \in Workers :
            /\ worker[w].built =>
                  Configuration(worker'[w]) = Configuration(worker[w])
            /\ worker'[w] # worker[w] /\ worker[w].built =>
                  /\ Calling(w)
                  /\ \E p \in Procs :
                        wk[p] = w /\ pc'[p] # pc[p] /\ InBody(p)
            /\ mutex'[w] # mutex[w] =>
                  \E p \in Procs :
                      /\ wk[p] = w
                      /\ pc'[p] # pc[p]
                      /\ pc[p] \in {"lock", "unlock"}
            /\ issued'[w] # issued[w] =>
                  \E p \in Procs : wk[p] = w /\ pc[p] = "L92"]_vars

\* both Workers have returned IDs, in different ticks after the construction
\* tick, one of them through NextID, with their configuration as constructed
C18_Witness ==
    /\ \A w \in Workers :
          /\ worker[w].built
          /\ issued[w] # <<>>
          /\ worker[w].LastTimeStamp # ConstructionTick(w)
          /\ Configuration(worker[w]) = ConstructedConfiguration(w)
    /\ \E p \in Procs : pc[p] = "unlock"
    /\ \E v, w \in Workers : worker[v].LastTimeStamp # worker[w].LastTimeStamp

\* the call of p is inside waitForNextTime
Waiting(p) == pc[p] \in {"w103", "w104", "w107"}

(***************************************************************************)
(* C19  Drift-wait postcondition (one caller at a time): waitForNextTime   *)
(* returns only after a clock read strictly greater than the LastTimeStamp *)
(* it started with; on return LastTimeStamp is that clock read, and        *)
(* Sequence and the configuration are as they were; as long as the clock   *)
(* reads are <= LastTimeStamp it stays in the loop.                        *)
(***************************************************************************)
C19_DriftWait ==
    /\ [](\A p \in Procs :
            /\ Waiting(p) => W(p).LastTimeStamp = lts0[p]
            /\ pc[p] = "w107" => ts[p] > lts0[p])
    /\ [][\A p \in Procs :
            /\ pc[p] = "w104" /\ pc'[p] # pc[p] =>
                  IF ts[p] <= W(p).LastTimeStamp
                  THEN pc'[p] = "w103"
                  ELSE pc'[p] = "w107"
            /\ Waiting(p) /\ Waiting(p)' => worker'[wk[p]] = worker[wk[p]]
            /\ Waiting(p) /\ ~Waiting(p)' =>
                  /\ pc[p] = "w107"
                  /\ ts[p] > W(p).LastTimeStamp
                  /\ worker'[wk[p]] =
                        [worker[wk[p]] EXCEPT !.LastTimeStamp = ts[p]]]_vars

\* waitForNextTime has returned to line 78 of a call that found Sequence = 1:
\* LastTimeStamp is above the value it had and Sequence is still 1
C19_Witness ==
    \E p \in Procs :
        /\ pc[p] = "L80"
        /\ "back" \in took[p]
        /\ seq0[p] = 1
        /\ W(p).Sequence = 1
        /\ W(p).LastTimeStamp > lts0[p]
        /\ W(p).LastTimeStamp <= now

====
